---- MODULE Spec2Model ----
(***************************************************************************)
(* A model of animate/utils/util.py of MegFaceAnimate: DDIM inversion,     *)
(* checkpoint merging (load_weights), the crop geometry of the face        *)
(* conditioning functions and the patch mask of crop_move_face.            *)
(*                                                                         *)
(* The module holds one specification per component.  Every specification  *)
(* shares the variables; a component that a specification does not run     *)
(* stays in its idle state.                                                *)
(***************************************************************************)
EXTENDS Integers, Sequences, FiniteSets, TLC

VARIABLES
    \* ---- ddim_loop ----
    dpc,            \* position of ddim_loop: "idle", "loop", "done", "raised"
    dIn,            \* the arguments of the call in progress
    dI,             \* the loop variable i
    dLatent,        \* the local variable latent
    dAll,           \* the local list all_latent
    dRet,           \* the returned list, or the exception raised
    dCalls,         \* the denoising-network calls made, in order
    \* ---- load_weights ----
    lwpc,           \* position of load_weights: "idle", "motion", "dreambooth",
                    \* "lora", "motion_lora", "done", "raised"
    lwIn,           \* the arguments of the call and the files its paths name
    lwJ,            \* how many motion-LoRA configs have been merged
    pipe,           \* animation_pipeline: the parameters of unet, vae, text_encoder
    lwRet,          \* the returned pipeline, or the exception raised
    \* ---- crop_and_resize_tensor, crop_move_face ----
    cpc,            \* "idle", or the function that has run
    cIn,            \* the arguments of the call
    cOut,           \* what the call computed and returned
    \* ---- the face cropping paths ----
    fpc,            \* "idle", or the function that has run
    fIn,            \* the arguments of the call and the detector's answers
    fOut,           \* what the call returned, or the exception raised
    \* ---- next_step ----
    npc,            \* "idle", or "next_step" when the function has run
    nIn,            \* the arguments of the call
    nOut,           \* the schedule reads made and the value returned, or the exception
    \* ---- get_checkpoint ----
    gpc,            \* position of the calling thread: "idle" (between calls),
                    \* "downloaded", "loaded", "raised"
    gCalls,         \* the calls made so far: their path and what they returned
    gThreads,       \* the cleanup threads started: their call, file and state
    gFiles,         \* the local files: name -> content
    gLog            \* the steps taken, in order

ddimVars == <<dpc, dIn, dI, dLatent, dAll, dRet, dCalls>>
loadVars == <<lwpc, lwIn, lwJ, pipe, lwRet>>

cropVars == <<cpc, cIn, cOut>>
faceVars == <<fpc, fIn, fOut>>
nextVars == <<npc, nIn, nOut>>
ckptVars == <<gpc, gCalls, gThreads, gFiles, gLog>>

vars == <<ddimVars, loadVars, cropVars, faceVars, nextVars, ckptVars>>

None == "None"

Min(a, b) == IF a < b THEN a ELSE b
Max(a, b) == IF a > b THEN a ELSE b

----------------------------------------------------------------------------
(***************************************************************************)
(* Python sequence indexing: seq[k] for -len <= k < len, IndexError        *)
(* otherwise.                                                              *)
(***************************************************************************)
PyIndexOk(s, k) == -Len(s) <= k /\ k < Len(s)
PyIndex(s, k) == IF k < 0 THEN s[Len(s) + k + 1] ELSE s[k + 1]

----------------------------------------------------------------------------
(* DDIM inversion                                                          *)

\* Bounds of the inputs.
MaxInfSteps == 2        \* num_inference_steps of the scheduler: 1..MaxInfSteps
MaxInvSteps == 5        \* num_inv_steps: 0..MaxInvSteps
NumLatents == 2         \* distinct input latents
Prompts == {"", "a face"}

\* The scheduler's configuration (ddim_scheduler.config.num_train_timesteps)
\* and the literal of next_step.
NumTrainTimesteps == 1000
MaxTimestep == 999

InputLatents == {[op |-> "input", id |-> k] : k \in 1..NumLatents}

\* The scheduler's timestep sequence after set_timesteps(n): n evenly spaced
\* timesteps in descending order, ending in 0.
SchedulerTimesteps(n) ==
    [j \in 1..n |-> (n - j) * (NumTrainTimesteps \div n)]

\* init_prompt: concat(unconditional embedding, conditional embedding).
InitPrompt(prompt) == <<[emb |-> "uncond", prompt |-> ""],
                        [emb |-> "cond", prompt |-> prompt]>>

\* get_noise_pred_single: one call of the denoising network.
GetNoisePredSingle(latents, t, context) ==
    [op |-> "unet", x |-> latents, t |-> t, ctx |-> context]

\* A read without the final value: the variant C12 is tested against.
AlphaProdTNoFinal(timestep) == [alpha |-> "alphas_cumprod", at |-> timestep]

\* The schedule entries next_step reads.
AlphaProdT(timestep) ==
    IF timestep >= 0 THEN [alpha |-> "alphas_cumprod", at |-> timestep]
                     ELSE [alpha |-> "final_alpha_cumprod", at |-> None]

\* next_step: a term over the noise prediction, the sample and the two
\* schedule entries read.
NextStep(model_output, timestep, sample, n) ==
    LET ts   == Min(timestep - NumTrainTimesteps \div n, MaxTimestep)
        nxt  == timestep
    IN  [op |-> "next_step", eps |-> model_output, x |-> sample,
         a_t |-> AlphaProdT(ts),
         a_next |-> [alpha |-> "alphas_cumprod", at |-> nxt]]

\* ddim_scheduler.alphas_cumprod[k]: a tensor of num_train_timesteps entries;
\* a negative index counts from the end, an index out of range raises.
AlphasCumprodIndexOk(k) == 0 - NumTrainTimesteps <= k /\ k < NumTrainTimesteps
AlphasCumprodPosition(k) == IF k < 0 THEN NumTrainTimesteps + k ELSE k

\* The timesteps and noise predictions next_step is called with.
NextStepTimesteps ==
    {0 - NumTrainTimesteps - 1, 0 - NumTrainTimesteps, 0 - 1, 0, 1, 250, 333, 499, 500,
     501, 666, MaxTimestep - 1, MaxTimestep, NumTrainTimesteps, NumTrainTimesteps + 500,
     2 * NumTrainTimesteps + 500}
NoisePreds == {[op |-> "input", id |-> "noise_pred"], [op |-> "input", id |-> "zeros"]}

\* A call of next_step(model_output, timestep, sample, ddim_scheduler), the
\* scheduler having n inference steps: the entries of the schedule read, in
\* order (lines 125, 126), and the value returned or the exception raised.
NextStepCallOf(model_output, timestep, sample, n) ==
    LET ts == Min(timestep - NumTrainTimesteps \div n, MaxTimestep)
        next_timestep == timestep
        first == IF ts >= 0
                 THEN [entry |-> "alphas_cumprod", index |-> ts,
                       position |-> AlphasCumprodPosition(ts)]
                 ELSE [entry |-> "final_alpha_cumprod", index |-> None, position |-> None]
        second == [entry |-> "alphas_cumprod", index |-> next_timestep,
                   position |-> AlphasCumprodPosition(next_timestep)]
    IN  IF ~AlphasCumprodIndexOk(next_timestep)
        THEN [exc |-> "IndexError", line |-> 126, t_prev |-> ts, reads |-> <<first>>]
        ELSE [exc |-> None, t_prev |-> ts, reads |-> <<first, second>>,
              value |-> NextStep(model_output, timestep, sample, n)]

NextStepIdle == npc = "idle" /\ nIn = None /\ nOut = None

NextStepCall ==
    /\ npc = "idle"
    /\ \E eps \in NoisePreds, t \in NextStepTimesteps, x \in InputLatents,
          n \in 1..MaxInfSteps :
        /\ nIn' = [model_output |-> eps, timestep |-> t, sample |-> x,
                   num_inference_steps |-> n]
        /\ nOut' = NextStepCallOf(eps, t, x, n)
    /\ npc' = "next_step"

\* all_latent = [latent]
AllLatentInit(latent) == <<latent>>

\* latent.clone().detach(): a tensor of the same value.
CloneDetach(latent) == latent

\* A loop that runs once more than range(num_inv_steps): the variant C1 is
\* tested against.
LoopContinuesOffByOne(i, num_inv_steps) == i <= num_inv_steps

\* range(num_inv_steps)
LoopContinues(i, num_inv_steps) == i < num_inv_steps

\* An index that walks the timesteps forward: the variant C11 is tested
\* against.
TimestepIndexForward(n, i) == i

\* The index ddim_loop reads the timesteps at.
TimestepIndex(n, i) == n - i - 1

DdimIdle ==
    /\ dpc = "idle" /\ dIn = None /\ dI = 0 /\ dLatent = None
    /\ dAll = <<>> /\ dRet = None /\ dCalls = <<>>

\* ddim_inversion(pipeline, ddim_scheduler, video_latent, num_inv_steps):
\* the call, up to the first test of the loop.
DdimCall ==
    /\ dpc = "idle"
    /\ \E z \in InputLatents, N \in 0..MaxInvSteps, n \in 1..MaxInfSteps,
          prompt \in Prompts :
        /\ dIn' = [latent |-> z, num_inv_steps |-> N, num_inference_steps |-> n,
                   timesteps |-> SchedulerTimesteps(n),
                   context |-> InitPrompt(prompt)]
        /\ dAll' = AllLatentInit(z)
        /\ dLatent' = CloneDetach(z)
    /\ dI' = 0
    /\ dpc' = "loop"
    /\ UNCHANGED <<dRet, dCalls>>

\* One iteration of the loop of ddim_loop.
DdimStep ==
    /\ dpc = "loop"
    /\ LoopContinues(dI, dIn.num_inv_steps)
    /\ LET k == TimestepIndex(Len(dIn.timesteps), dI) IN
       IF ~PyIndexOk(dIn.timesteps, k)
       THEN /\ dpc' = "raised"
            /\ dRet' = "IndexError"
            /\ UNCHANGED <<dIn, dI, dLatent, dAll, dCalls>>
       ELSE LET t    == PyIndex(dIn.timesteps, k)
                cond == dIn.context[2]
                eps  == GetNoisePredSingle(dLatent, t, cond)
                nl   == NextStep(eps, t, dLatent, dIn.num_inference_steps)
            IN  /\ dCalls' = Append(dCalls, [pos |-> k, t |-> t, ctx |-> cond.emb])
                /\ dLatent' = nl
                /\ dAll' = Append(dAll, nl)
                /\ dI' = dI + 1
                /\ UNCHANGED <<dpc, dIn, dRet>>

\* The loop is over: return all_latent.
DdimReturn ==
    /\ dpc = "loop"
    /\ ~LoopContinues(dI, dIn.num_inv_steps)
    /\ dpc' = "done"
    /\ dRet' = dAll
    /\ UNCHANGED <<dIn, dI, dLatent, dAll, dCalls>>

----------------------------------------------------------------------------
(* load_weights                                                            *)

\* A parameter name is its dotted path, as the sequence of its components.
\* A path is a sequence of its stem and its suffix; <<>> is the empty string.
MaxMotionLoras == 2     \* length of motion_module_lora_configs: 0..MaxMotionLoras

EmptyPath == <<>>
\* s.endswith(suffix), for strings.
StrEndsWith(s, suffix) ==
    /\ Len(s) >= Len(suffix)
    /\ SubSeq(s, Len(s) - Len(suffix) + 1, Len(s)) = suffix

\* path.endswith(suffix): the last component of the path ends with the suffix.
EndsWith(path, suffix) == Len(path) > 0 /\ StrEndsWith(path[Len(path)], suffix)

\* The parameters of the pipeline's sub-models before the call.
UnetKeys == {<<"conv_in", "weight">>,
             <<"down", "motion_modules", "weight">>,
             <<"mid", "motion_modules", "weight">>}
VaeKeys == {<<"encoder", "weight">>}
TextKeys == {<<"text_model", "weight">>}

\* A tensor is the list of what was written to it: the value it was loaded
\* from, then the deltas added.
Tensor(origin) == <<origin>>

PipeInit == [unet         |-> [k \in UnetKeys |-> Tensor("init")],
             vae          |-> [k \in VaeKeys |-> Tensor("init")],
             text_encoder |-> [k \in TextKeys |-> Tensor("init")]]

\* The keys a motion-module checkpoint file may hold.
CkptKeys == {<<"down", "motion_modules", "weight">>,    \* a motion key of the unet
             <<"up", "motion_modules", "weight">>,      \* a motion key the unet lacks
             <<"up", "xmotion_modules", "weight">>,     \* "motion_modules." inside a component
             <<"conv_in", "weight">>,                   \* another key of the unet
             <<"bogus", "weight">>,                     \* another key the unet lacks
             <<"tail", "motion_modules">>}              \* no "motion_modules." in it

StateDictKey == <<"state_dict">>

\* The files torch.load may find at motion_module_path: a state dict, bare or
\* wrapped under "state_dict".
MotionModuleFiles ==
    LET dicts == {[k \in S |-> Tensor("motion_module")] : S \in SUBSET CkptKeys}
    IN  dicts \cup {[k \in {StateDictKey} |-> d] : d \in dicts}

\* x["state_dict"] if "state_dict" in x else x
Unwrap(file) ==
    IF StateDictKey \in DOMAIN file THEN file[StateDictKey] ELSE file

\* "motion_modules." in name: a substring test on the whole dotted name.  The
\* substring holds one dot, its last character, so it lies at the end of a
\* component that a dot follows: a component other than the last that ends
\* with motion_modules ("xmotion_modules" as well as "motion_modules").
IsMotionKey(name) ==
    \E i \in 1..(Len(name) - 1) : StrEndsWith(name[i], "motion_modules")

\* A load without the filter: the variant C2 is tested against.
MotionModuleFilterNone(sd) == sd

\* {name: param for name, param in sd.items() if "motion_modules." in name}
MotionModuleFilter(sd) ==
    [k \in {n \in DOMAIN sd : IsMotionKey(n)} |-> sd[k]]

\* A load that resets the parameters the dict lacks: the variant C3 is
\* tested against.
LoadStateDictResetsMissing(params, sd) ==
    [k \in DOMAIN params |-> IF k \in DOMAIN sd THEN sd[k] ELSE Tensor("reset")]

\* module.load_state_dict(sd, strict=False): the parameters afterwards and
\* the (missing, unexpected) keys it returns.
LoadStateDict(params, sd) ==
    [k \in DOMAIN params |-> IF k \in DOMAIN sd THEN sd[k] ELSE params[k]]
MissingKeys(params, sd) == DOMAIN params \ DOMAIN sd
UnexpectedKeys(params, sd) == DOMAIN sd \ DOMAIN params

DreamboothPaths == {EmptyPath, <<"db", ".ckpt">>, <<"db", ".safetensors">>,
                    <<"db", ".bin">>}
LoraPaths == {EmptyPath, <<"lora", ".safetensors">>, <<"lora", ".ckpt">>}
LoraAlphas == {8}       \* lora_alpha, in tenths

\* The layers a LoRA file targets, by sub-model.
LoraFiles == {
    {[model |-> "unet", key |-> <<"conv_in", "weight">>]},
    {[model |-> "unet", key |-> <<"conv_in", "weight">>],
     [model |-> "text_encoder", key |-> <<"text_model", "weight">>]},
    {[model |-> "unet", key |-> <<"bogus", "weight">>]} }

\* convert_lora(pipeline, state_dict, alpha): add alpha * delta to every
\* targeted layer the pipeline has.
ConvertLora(p, file, alpha) ==
    [m \in DOMAIN p |->
        [k \in DOMAIN p[m] |->
            IF [model |-> m, key |-> k] \in file
            THEN Append(p[m][k], [delta |-> "lora", alpha |-> alpha])
            ELSE p[m][k]]]

\* The motion-LoRA files: the motion-module layers each targets, bare or
\* wrapped under "state_dict".
MotionLoraDicts == {
    [k \in {<<"down", "motion_modules", "weight">>} |-> "delta"],
    [k \in {<<"mid", "motion_modules", "weight">>,
            <<"up", "motion_modules", "weight">>} |-> "delta"] }
MotionLoraFiles ==
    MotionLoraDicts \cup {[k \in {StateDictKey} |-> d] : d \in MotionLoraDicts}
MotionLoraConfigs ==
    {[path |-> <<"mlora", ".ckpt">>, alpha |-> 10, file |-> f] : f \in MotionLoraFiles}

\* convert_motion_lora_ckpt_to_diffusers(pipeline, state_dict, alpha): add
\* alpha * delta to every targeted motion-module layer the unet has.
ConvertMotionLora(p, sd, alpha) ==
    [p EXCEPT !.unet =
        [k \in DOMAIN p.unet |->
            IF k \in DOMAIN sd
            THEN Append(p.unet[k], [delta |-> "motion_lora", alpha |-> alpha])
            ELSE p.unet[k]]]

SeqsUpTo(S, n) == UNION {[1..m -> S] : m \in 0..n}

Raised(exc, line) == [exc |-> exc, line |-> line]

LwIdle ==
    /\ lwpc = "idle" /\ lwIn = None /\ lwJ = 0 /\ pipe = PipeInit /\ lwRet = None

\* load_weights(animation_pipeline, motion_module_path,
\* motion_module_lora_configs, dreambooth_model_path, lora_model_path, lora_alpha)
LwCall ==
    /\ lwpc = "idle"
    /\ \E mm \in {[path |-> EmptyPath, file |-> None]}
                 \cup {[path |-> <<"mm", ".ckpt">>, file |-> f] : f \in MotionModuleFiles},
          db \in DreamboothPaths,
          lo \in {[path |-> EmptyPath, file |-> None],
                  [path |-> <<"lora", ".ckpt">>, file |-> None]}
                 \cup {[path |-> <<"lora", ".safetensors">>, file |-> f] : f \in LoraFiles},
          alpha \in LoraAlphas,
          ml \in SeqsUpTo(MotionLoraConfigs, MaxMotionLoras) :
        lwIn' = [motion_module_path |-> mm.path, motion_module_file |-> mm.file,
                 dreambooth_model_path |-> db,
                 lora_model_path |-> lo.path, lora_file |-> lo.file,
                 lora_alpha |-> alpha,
                 motion_module_lora_configs |-> ml]
    /\ lwpc' = "motion"
    /\ lwJ' = 0
    /\ UNCHANGED <<pipe, lwRet>>

\* The state dict load_state_dict is given at line 179.
UnetStateDict(in) ==
    IF in.motion_module_path # EmptyPath
    THEN MotionModuleFilter(Unwrap(in.motion_module_file))
    ELSE <<>>

\* 1.1 motion module: lines 169-181.  load_state_dict has copied the matching
\* parameters when the assertion is evaluated.
LwMotionModule ==
    /\ lwpc = "motion"
    /\ LET sd == UnetStateDict(lwIn) IN
        /\ pipe' = [pipe EXCEPT !.unet = LoadStateDict(pipe.unet, sd)]
        /\ IF UnexpectedKeys(pipe.unet, sd) = {}
           THEN lwpc' = "dreambooth" /\ UNCHANGED lwRet
           ELSE lwpc' = "raised" /\ lwRet' = Raised("AssertionError", 180)
    /\ UNCHANGED <<lwIn, lwJ>>

\* The dreambooth step: lines 183-201.  The first statement after the file is
\* read, line 194, calls convert_ldm_vae_checkpoint.  util.py neither imports
\* nor defines that name (nor convert_ldm_unet_checkpoint and
\* convert_ldm_clip_checkpoint of lines 197 and 200): evaluating it raises
\* NameError before any sub-model is touched, whatever the file holds.
LwDreambooth ==
    /\ lwpc = "dreambooth"
    /\ IF lwIn.dreambooth_model_path = EmptyPath
       THEN lwpc' = "lora" /\ UNCHANGED <<pipe, lwRet>>
       ELSE lwpc' = "raised" /\ lwRet' = Raised("NameError", 194) /\ UNCHANGED pipe
    /\ UNCHANGED <<lwIn, lwJ>>

\* A LoRA step that undoes the earlier merges of the call when its assertion
\* fails: the variant C16 is tested against.
LwLoraRollsBack ==
    /\ lwpc = "lora"
    /\ IF lwIn.lora_model_path = EmptyPath
       THEN lwpc' = "motion_lora" /\ UNCHANGED <<pipe, lwRet>>
       ELSE IF ~EndsWith(lwIn.lora_model_path, ".safetensors")
       THEN lwpc' = "raised" /\ lwRet' = Raised("AssertionError", 205) /\ pipe' = PipeInit
       ELSE /\ pipe' = ConvertLora(pipe, lwIn.lora_file, lwIn.lora_alpha)
            /\ lwpc' = "motion_lora"
            /\ UNCHANGED lwRet
    /\ UNCHANGED <<lwIn, lwJ>>

\* The LoRA step: lines 203-212.
LwLora ==
    /\ lwpc = "lora"
    /\ IF lwIn.lora_model_path = EmptyPath
       THEN lwpc' = "motion_lora" /\ UNCHANGED <<pipe, lwRet>>
       ELSE IF ~EndsWith(lwIn.lora_model_path, ".safetensors")
       THEN lwpc' = "raised" /\ lwRet' = Raised("AssertionError", 205) /\ UNCHANGED pipe
       ELSE /\ pipe' = ConvertLora(pipe, lwIn.lora_file, lwIn.lora_alpha)
            /\ lwpc' = "motion_lora"
            /\ UNCHANGED lwRet
    /\ UNCHANGED <<lwIn, lwJ>>

\* One iteration of the motion-LoRA loop: lines 214-222.
LwMotionLora ==
    /\ lwpc = "motion_lora"
    /\ lwJ < Len(lwIn.motion_module_lora_configs)
    /\ LET cfg == lwIn.motion_module_lora_configs[lwJ + 1] IN
        pipe' = ConvertMotionLora(pipe, Unwrap(cfg.file), cfg.alpha)
    /\ lwJ' = lwJ + 1
    /\ UNCHANGED <<lwpc, lwIn, lwRet>>

\* return animation_pipeline: line 224.
LwReturn ==
    /\ lwpc = "motion_lora"
    /\ lwJ = Len(lwIn.motion_module_lora_configs)
    /\ lwpc' = "done"
    /\ lwRet' = [pipeline |-> "animation_pipeline", state |-> pipe]
    /\ UNCHANGED <<lwIn, lwJ, pipe>>


----------------------------------------------------------------------------
(* crop_and_resize_tensor                                                  *)

\* Bounds of the inputs: frames of 1..MaxDim pixels a side, rectangle
\* coordinates from -RectMargin to MaxDim + RectMargin.
MaxDim == 3
RectMargin == 1
MaxBatch == 2

\* target_size when is_arcface is set (line 325).
ArcfaceSize == 112

\* None as the value of crop_rect or center.
NoneArg == <<>>

Coords == (0 - RectMargin)..(MaxDim + RectMargin)

\* A frame batch (B, C, H, W); src names its pixels.
Frame(src, b, c, h, w) == [src |-> src, b |-> b, c |-> c, h |-> h, w |-> w]
\* The pixels of an input tensor.
Input(name) == [op |-> "input", name |-> name]
SmallFrames ==
    {Frame(Input("frame"), b, 3, h, w) : b \in 1..MaxBatch, h \in 1..MaxDim, w \in 1..MaxDim}
\* The frame of the spec's examples, (1, 3, 480, 640).
VgaFrame == Frame(Input("frame"), 1, 3, 480, 640)

\* Rectangles (left, top, right, bottom) with left < right and top < bottom.
Rects == {r \in Coords \X Coords \X Coords \X Coords : r[1] < r[3] /\ r[2] < r[4]}

TargetSizes == {<<512, 512>>, <<2, 3>>}

\* Coordinates are held in fixed point: a number x is the integer unit * x,
\* with unit = 1 where the code computes on integers and unit = Tenths where it
\* has multiplied by 0.4, 0.1 or 0.6.
Tenths == 10

\* Python's a // 2: the floor of a / 2, a whole number.
FloorDiv2(a, unit) == unit * (a \div (2 * unit))

\* int(x): truncation toward zero.
IntOf(x, unit) == IF x >= 0 THEN x \div unit ELSE 0 - ((0 - x) \div unit)

\* Python's slice a:b of a dimension of n entries: the first index and the
\* index after the last; a negative bound counts from the end.
SliceBound(a, n) == IF a < 0 THEN Max(a + n, 0) ELSE Min(a, n)
PySlice(a, b, n) == <<SliceBound(a, n), Max(SliceBound(a, n), SliceBound(b, n))>>
SliceLen(sl) == sl[2] - sl[1]

\* Lines 328-338: widen the rectangle by padding its shorter side.
\* On floating-point coordinates that are not whole numbers the difference
\* of the sides carries a rounding error, and a quotient that is exactly a
\* whole number may come out one lower: slack = 1 is that outcome, slack = 0
\* the exact one.  On whole numbers the arithmetic is exact.
PadFloorDiv2(a, crop_rect, unit, slack) ==
    IF /\ slack = 1
       /\ a % (2 * unit) = 0
       /\ \E k \in 1..4 : crop_rect[k] % unit # 0
    THEN FloorDiv2(a, unit) - unit
    ELSE FloorDiv2(a, unit)

PadToSquareFloat(crop_rect, unit, slack) ==
    LET left == crop_rect[1]   top == crop_rect[2]
        right == crop_rect[3]  bottom == crop_rect[4]
        face_w == right - left
        face_h == bottom - top
    IN  IF face_w < face_h
        THEN <<left - PadFloorDiv2(face_h - face_w, crop_rect, unit, slack), top,
               right + PadFloorDiv2(face_h - face_w, crop_rect, unit, slack), bottom>>
        ELSE <<left, top - PadFloorDiv2(face_w - face_h, crop_rect, unit, slack),
               right, bottom + PadFloorDiv2(face_w - face_h, crop_rect, unit, slack)>>

PadToSquare(crop_rect, unit) == PadToSquareFloat(crop_rect, unit, 0)

\* A clip of left and top only: the variant C4 is tested against.
ClipToFrameLowerOnly(r, width, height) == <<Max(r[1], 0), Max(r[2], 0), r[3], r[4]>>

\* Line 340: clip to the frame.
ClipToFrame(r, width, height) ==
    <<Max(r[1], 0), Max(r[2], 0), Min(r[3], width), Min(r[4], height)>>

\* Lines 344-356: the square around a center point that reaches the nearest edge.
Min4(a, b, c, d) == Min(Min(a, b), Min(c, d))
CenterRect(center, width, height) ==
    LET center_x == center[1]
        center_y == center[2]
        distance_to_edge == Min4(center_x, center_y, width - center_x, height - center_y)
    IN  ClipToFrame(<<center_x - distance_to_edge, center_y - distance_to_edge,
                      center_x + distance_to_edge, center_y + distance_to_edge>>,
                    width, height)

\* The square at the top left corner: the variant C6 is tested against.
DefaultRectTopLeft(width, height) ==
    LET short_edge == Min(height, width) IN <<0, 0, short_edge, short_edge>>

\* Lines 359-363: the central square of the frame.
DefaultRect(width, height) ==
    LET short_edge == Min(height, width)
        left == (width - short_edge) \div 2
        top == (height - short_edge) \div 2
    IN  <<left, top, left + short_edge, top + short_edge>>

\* Lines 324-325 and 366.
EffectiveTargetSize(target_size, is_arcface) ==
    IF is_arcface THEN <<ArcfaceSize, ArcfaceSize>> ELSE target_size

\* Lines 365-368: slice the frame and resize the crop.  interpolate rejects an
\* input with an empty spatial dimension.
SliceAndResize(frame, rect, size, unit) ==
    LET rows == PySlice(IntOf(rect[2], unit), IntOf(rect[4], unit), frame.h)
        cols == PySlice(IntOf(rect[1], unit), IntOf(rect[3], unit), frame.w)
    IN  IF SliceLen(rows) = 0 \/ SliceLen(cols) = 0
        THEN [exc |-> "RuntimeError", line |-> 367, rows |-> rows, cols |-> cols]
        ELSE [exc |-> None,
              pixels |-> [op |-> "resize", of |-> frame.src, rows |-> rows,
                          cols |-> cols, size |-> size],
              shape |-> <<frame.b, frame.c, size[1], size[2]>>]

\* A rectangle of whole numbers, held in the given unit.
InUnit(r, unit) == <<unit * r[1], unit * r[2], unit * r[3], unit * r[4]>>

\* crop_and_resize_tensor(frame, target_size, crop_rect, center, is_arcface),
\* crop_rect being held in the given unit; center is a pair of whole numbers.
CropAndResizeUnit(frame, target_size, crop_rect, center, is_arcface, unit, slack) ==
    LET size == EffectiveTargetSize(target_size, is_arcface)
        padded == IF crop_rect # NoneArg THEN PadToSquareFloat(crop_rect, unit, slack)
                  ELSE NoneArg
        rect == IF crop_rect # NoneArg
                THEN ClipToFrame(padded, unit * frame.w, unit * frame.h)
                ELSE IF center # NoneArg
                THEN InUnit(CenterRect(center, frame.w, frame.h), unit)
                ELSE InUnit(DefaultRect(frame.w, frame.h), unit)
    IN  [padded |-> padded, rect |-> rect, ret |-> SliceAndResize(frame, rect, size, unit)]

\* crop_and_resize_tensor on integer coordinates.
CropAndResizeTensor(frame, target_size, crop_rect, center, is_arcface) ==
    CropAndResizeUnit(frame, target_size, crop_rect, center, is_arcface, 1, 0)

\* The calls of crop_and_resize_tensor the model makes: every small frame with
\* every rectangle, center point or neither, and the spec's examples.
CropCalls ==
    {[frame |-> f, target_size |-> ts, crop_rect |-> r, center |-> NoneArg, is_arcface |-> FALSE] :
        f \in {g \in SmallFrames : g.b = 1}, ts \in {<<2, 3>>}, r \in Rects}
    \cup
    {[frame |-> f, target_size |-> ts, crop_rect |-> NoneArg, center |-> c, is_arcface |-> a] :
        f \in SmallFrames, ts \in TargetSizes, c \in Coords \X Coords, a \in BOOLEAN}
    \cup
    {[frame |-> f, target_size |-> ts, crop_rect |-> NoneArg, center |-> NoneArg, is_arcface |-> a] :
        f \in SmallFrames \cup {VgaFrame}, ts \in TargetSizes, a \in BOOLEAN}
    \cup
    {[frame |-> VgaFrame, target_size |-> <<512, 512>>, crop_rect |-> r, center |-> NoneArg,
      is_arcface |-> FALSE] :
        r \in {<<100, 100, 200, 150>>, <<100, 100, 150, 201>>, <<600, 400, 700, 500>>}}

CropIdle == cpc = "idle" /\ cIn = None /\ cOut = None

CropAndResizeCall ==
    /\ cpc = "idle"
    /\ \E in \in CropCalls :
        /\ cIn' = in
        /\ cOut' = CropAndResizeTensor(in.frame, in.target_size, in.crop_rect,
                                       in.center, in.is_arcface)
    /\ cpc' = "crop_and_resize_tensor"

----------------------------------------------------------------------------
(* crop_move_face                                                          *)

\* num_patches_per_dim (line 421).
NumPatchesPerDim == 16

\* The rectangle kept when crop_rect is None (lines 407-410).
NoRectEdge == 2

\* is_get_head: top -= 0.4 * delta_hight, bottom += 0.1 * delta_hight.  The
\* bounds of crop_move_face are kept in tenths of a pixel, which holds these
\* products exactly.
HeadTopPad == 4
HeadBottomPad == 1

\* The uniform draws of [0, 1) and the rates, in RateScale-ths.
RateScale == 10
Rates == {0, RateScale \div 2, RateScale}
Draws == {0, RateScale \div 2, RateScale - 1}

\* The draws torch.rand(16, 16) may give: a family of matrices, by seed.
Seeds == {<<0, 0, 0>>, <<0, 0, RateScale - 1>>, <<1, 3, 0>>}
MaskRectRate(seed, i, j) == (seed[1] * i + seed[2] * j + seed[3]) % RateScale

\* Lines 385-410: the bounds left, top, right, bottom, in tenths.
MoveFaceBounds(crop_rect, is_get_head, width, height) ==
    IF crop_rect # NoneArg
    THEN LET sq == PadToSquare(crop_rect, 1)
             delta_hight == sq[4] - sq[2]
             top == IF is_get_head THEN Tenths * sq[2] - HeadTopPad * delta_hight
                                   ELSE Tenths * sq[2]
             bottom == IF is_get_head THEN Tenths * sq[4] + HeadBottomPad * delta_hight
                                      ELSE Tenths * sq[4]
         IN  ClipToFrame(<<Tenths * sq[1], top, Tenths * sq[3], bottom>>,
                         Tenths * width, Tenths * height)
    ELSE <<0, 0, Tenths * NoRectEdge, Tenths * NoRectEdge>>

\* patch_size = target_height // num_patches_per_dim (line 422)
PatchSize(target_height) == target_height \div NumPatchesPerDim

\* Lines 419-430: the patches whose pixels are set to zero.
MaskGate(mask_rate, use_mask_rate, cur_mask_rate) ==
    mask_rate # 0 /\ cur_mask_rate < use_mask_rate
MaskedPatches(mask_rate, seed) ==
    {p \in (0..(NumPatchesPerDim - 1)) \X (0..(NumPatchesPerDim - 1)) :
        MaskRectRate(seed, p[1], p[2]) < mask_rate}

\* crop_move_face(frame, target_size, crop_rect, use_mask_rate, mask_rate,
\* is_get_head), with the draws cur_mask_rate and (by seed) mask_rect_rate.
CropMoveFace(frame, target_size, crop_rect, use_mask_rate, mask_rate, is_get_head, cur_mask_rate, seed) ==
    LET bounds == MoveFaceBounds(crop_rect, is_get_head, frame.w, frame.h)
        rows == PySlice(IntOf(bounds[2], Tenths), IntOf(bounds[4], Tenths), frame.h)
        cols == PySlice(IntOf(bounds[1], Tenths), IntOf(bounds[3], Tenths), frame.w)
        gate == MaskGate(mask_rate, use_mask_rate, cur_mask_rate)
    IN  [bounds |-> bounds,
         ret |-> [exc |-> None,
                  pixels |-> [op |-> "resize",
                              of |-> [op |-> "keep", of |-> frame.src,
                                      rows |-> rows, cols |-> cols,
                                      h |-> frame.h, w |-> frame.w],
                              size |-> target_size],
                  shape |-> <<frame.b, frame.c, target_size[1], target_size[2]>>,
                  mask |-> [applied |-> gate,
                            patch_size |-> PatchSize(target_size[1]),
                            patches |-> IF gate THEN MaskedPatches(mask_rate, seed) ELSE {}]]]

\* mask[i*ps:(i+1)*ps, j*ps:(j+1)*ps] = 1 for the masked patches: whether the
\* pixel (y, x) of the target frame is set to zero by the mask.
Masked(ret, y, x) ==
    /\ ret.mask.applied
    /\ \E p \in ret.mask.patches :
        LET ps == ret.mask.patch_size
            rs == PySlice(p[1] * ps, (p[1] + 1) * ps, ret.shape[3])
            cs == PySlice(p[2] * ps, (p[2] + 1) * ps, ret.shape[4])
        IN  rs[1] <= y /\ y < rs[2] /\ cs[1] <= x /\ x < cs[2]

\* Bilinear interpolation with align_corners=False: the source indices that
\* weigh, with a positive weight, on index d of a dimension resized from n_in
\* to n_out entries.
ResizeSupport(d, n_in, n_out) ==
    LET num == (2 * d + 1) * n_in - n_out       \* 2 * n_out * source coordinate
        src == IF num < 0 THEN 0 ELSE num
        i0 == src \div (2 * n_out)
        i1 == Min(i0 + 1, n_in - 1)
    IN  IF src % (2 * n_out) = 0 THEN {i0} ELSE {i0, i1}

\* Whether the pixel (y, x) of the resized frame takes a positive weight of a
\* pixel the function kept (every other pixel of frame_cropped is zero).
SeesKeptPixel(ret, y, x) ==
    LET keep == ret.pixels.of IN
    /\ \E sy \in ResizeSupport(y, keep.h, ret.shape[3]) :
        keep.rows[1] <= sy /\ sy < keep.rows[2]
    /\ \E sx \in ResizeSupport(x, keep.w, ret.shape[4]) :
        keep.cols[1] <= sx /\ sx < keep.cols[2]

MaskTargetSizes == {<<16, 16>>, <<32, 32>>, <<20, 20>>, <<16, 24>>, <<32, 16>>, <<8, 8>>}

\* The calls of crop_move_face the model makes: every small frame with every
\* rectangle or none, with and without is_get_head, unmasked; and the largest
\* frames with every target size, rate and draw of the mask.
MoveCalls ==
    {[frame |-> f, target_size |-> <<2, 3>>, crop_rect |-> r, is_get_head |-> g,
      use_mask_rate |-> 0, mask_rate |-> 0, cur_mask_rate |-> 0, seed |-> <<0, 0, 0>>] :
        f \in {x \in SmallFrames : x.b = 1}, r \in Rects \cup {NoneArg}, g \in BOOLEAN}
    \cup
    {[frame |-> f, target_size |-> ts, crop_rect |-> r, is_get_head |-> FALSE,
      use_mask_rate |-> u, mask_rate |-> m, cur_mask_rate |-> c, seed |-> sd] :
        f \in {x \in SmallFrames : x.b = 1 /\ x.h = MaxDim /\ x.w = MaxDim},
        ts \in MaskTargetSizes,
        r \in {NoneArg, <<0, 0, MaxDim, MaxDim>>},
        u \in Rates, m \in Rates, c \in Draws, sd \in Seeds}

CropMoveFaceCall ==
    /\ cpc = "idle"
    /\ \E in \in MoveCalls :
        /\ cIn' = in
        /\ cOut' = CropMoveFace(in.frame, in.target_size, in.crop_rect, in.use_mask_rate,
                                in.mask_rate, in.is_get_head, in.cur_mask_rate, in.seed)
    /\ cpc' = "crop_move_face"

----------------------------------------------------------------------------
(* The face cropping paths: crop_and_resize_tensor_face, crop025_face,      *)
(* get_025_gaze_mouth, get_condition_face                                   *)

MaxDetections == 2      \* detections in one answer of the face detector

\* dw * 0.6 and dh * 0.6 (lines 521-524), in tenths.
UnionPad == 6

\* The rectangles the detector may report.
FaceRects == {<<0, 0, 1, 1>>, <<0, 0, 2, 2>>, <<1, 1, 3, 2>>, <<1, 0, MaxDim + 1, MaxDim>>}

\* The frame batches given to the face functions.
FaceFrames ==
    {Frame(Input("pixel_values"), b, 3, d[1], d[2]) :
        b \in 1..MaxBatch, d \in {<<2, 2>>, <<MaxDim, MaxDim + 1>>}}

\* An answer of the face detector on n frames: with no 'image_ids' key, or
\* with one image id (a frame index) and one rectangle per detection.
DetectorAnswers(n) ==
    {[has_ids |-> FALSE, dets |-> <<>>]} \cup
    {[has_ids |-> TRUE, dets |-> d] :
        d \in SeqsUpTo({[id |-> i, rect |-> r] : i \in 0..(n - 1), r \in FaceRects},
                       MaxDetections)}

\* 'image_ids' not in faces.keys() or faces['image_ids'].numel() == 0
NoFaceFound(faces) == ~faces.has_ids \/ Len(faces.dets) = 0

\* Lines 449-454: the rectangle of the first detection in frame i, or None.
FirstRectOf(faces, i) ==
    LET js == {j \in 1..Len(faces.dets) : faces.dets[j].id = i}
    IN  IF js = {} THEN NoneArg
        ELSE faces.dets[CHOOSE j \in js : \A k \in js : j <= k].rect

\* Lines 457-458: the center of a face rectangle.
FaceCenter(rect) == <<(rect[1] + rect[3]) \div 2, (rect[2] + rect[4]) \div 2>>

\* The frames detect_idx selects: the first and the last, or the only one.
DetectCount(b) == IF b > 1 THEN 2 ELSE 1

\* crop_and_resize_tensor_face(pixel_values, target_size, crop_face_center,
\* face_detector); faces is the detector's answer on the first and last frame,
\* refaces its answer on the cropped last frame.
CropAndResizeTensorFace(pixel_values, target_size, crop_face_center, faces, refaces) ==
    LET default == CropAndResizeTensor(pixel_values, target_size, NoneArg, NoneArg, FALSE).ret
        first == FirstRectOf(faces, 0)
        last == FirstRectOf(faces, 1)
        centered == CropAndResizeTensor(pixel_values, target_size, NoneArg,
                                        FaceCenter(first), FALSE).ret
    IN  IF NoFaceFound(faces) \/ ~crop_face_center
        THEN default @@ [path |-> "default"]
        ELSE IF first # NoneArg /\ last # NoneArg
        THEN IF centered.exc # None
             THEN [exc |-> centered.exc, line |-> 459, path |-> "both"]
             ELSE IF NoFaceFound(refaces)
             \* rearrange(pixel_values, "b f c h w -> (b f) c h w") of the
             \* four-dimensional pixel_values
             THEN [exc |-> "EinopsError", line |-> 464, path |-> "recheck"]
             ELSE centered @@ [path |-> "both"]
        ELSE IF first # NoneArg /\ pixel_values.b = 1
        THEN IF centered.exc # None
             THEN [exc |-> centered.exc, line |-> 475, path |-> "single"]
             ELSE centered @@ [path |-> "single"]
        ELSE default @@ [path |-> "fallback"]

\* get_rect_length(left, top, right, bottom, width, height)
GetRectLength(left, top, right, bottom, width, height) ==
    LET center_x == (left + right) \div 2
        center_y == (top + bottom) \div 2
        distance_to_edge == Min4(center_x, center_y, width - center_x, height - center_y)
    IN  <<2 * distance_to_edge, center_x, center_y>>

\* Lines 503-515: the box around the first rectangle of every frame, from
\* frame i on; IndexError when a frame has no rectangle.
RECURSIVE UnionBox(_, _, _, _)
UnionBox(faces, i, L, box) ==
    IF i = L THEN box
    ELSE LET face_rect == FirstRectOf(faces, i) IN
         IF face_rect = NoneArg THEN <<"IndexError">>
         ELSE UnionBox(faces, i + 1, L,
                       <<Min(face_rect[1], box[1]), Min(face_rect[2], box[2]),
                         Max(box[3], face_rect[3]), Max(box[4], face_rect[4])>>)

\* Lines 518-524: the crop rectangle around the box, in tenths.
Crop025Rect(box, W, H) ==
    LET dh == box[4] - box[2]
        dw == box[3] - box[1]
        rl == GetRectLength(box[1], box[2], box[3], box[4], W, H)
        half == Tenths * (rl[1] \div 2)
        center_x == Tenths * rl[2]
        center_y == Tenths * rl[3]
    IN  <<center_x - Min(half, UnionPad * dw), center_y - Min(half, Tenths * dh),
          center_x + Min(half, UnionPad * dw), center_y + Min(half, UnionPad * dh)>>

\* crop025_face(pixel_values, target_size, crop_face_center, face_detector);
\* faces is the detector's answer on all the frames, slack the rounding of
\* the floating-point padding.
Crop025Face(pixel_values, target_size, crop_face_center, faces, slack) ==
    LET default == CropAndResizeTensor(pixel_values, target_size, NoneArg, NoneArg, FALSE).ret
        box == UnionBox(faces, 0, pixel_values.b, <<pixel_values.w, pixel_values.h, 0, 0>>)
    IN  IF NoFaceFound(faces) \/ ~crop_face_center
        THEN default @@ [path |-> "default"]
        ELSE IF Len(box) = 1
        THEN [exc |-> "IndexError", line |-> 510, path |-> "union"]
        ELSE LET rect == Crop025Rect(box, pixel_values.w, pixel_values.h)
                 crop == CropAndResizeUnit(pixel_values, target_size, rect, NoneArg,
                                           FALSE, Tenths, slack).ret
             IN  IF crop.exc # None
                 THEN [exc |-> crop.exc, line |-> 527, path |-> "union", box |-> box]
                 ELSE crop @@ [path |-> "union", box |-> box]

\* control_crop[i].unsqueeze(0): frame i of a batch, as a batch of one.
FrameOf(batch, i) ==
    Frame([op |-> "frame", of |-> batch.src, index |-> i], 1, batch.c, batch.h, batch.w)

\* Lines 561-582 of get_025_gaze_mouth and 623-644 of get_condition_face (the
\* two are the same text): the first rectangle of every frame, or None for
\* every frame when no face is found, then crop_move_face frame by frame with
\* its default rates (no mask).  The calls are made with is_get_gaze=False.
ConditionFrames(control, target_size, is_get_head, faces) ==
    LET face_rect == [i \in 1..control.b |->
                        IF NoFaceFound(faces) THEN NoneArg
                        ELSE FirstRectOf(faces, i - 1)]
    IN  [exc |-> None,
         path |-> "move",
         pixels |-> [i \in 1..control.b |->
                       CropMoveFace(FrameOf(control, i - 1), target_size, face_rect[i],
                                    0, 0, is_get_head, 0, <<0, 0, 0>>).ret.pixels],
         shape |-> <<control.b, target_size[1], target_size[2], control.c>>]

FaceIdle == fpc = "idle" /\ fIn = None /\ fOut = None

CropAndResizeTensorFaceCall ==
    /\ fpc = "idle"
    /\ \E pv \in FaceFrames, ccf \in BOOLEAN, re \in DetectorAnswers(1) :
       \E faces \in DetectorAnswers(DetectCount(pv.b)) :
        /\ Len(re.dets) <= 1
        /\ fIn' = [pixel_values |-> pv, target_size |-> <<2, 3>>, crop_face_center |-> ccf,
                   faces |-> faces, refaces |-> re]
        /\ fOut' = CropAndResizeTensorFace(pv, <<2, 3>>, ccf, faces, re)
    /\ fpc' = "crop_and_resize_tensor_face"

Crop025FaceCall ==
    /\ fpc = "idle"
    /\ \E pv \in FaceFrames, ccf \in BOOLEAN, slack \in {0, 1} :
       \E faces \in DetectorAnswers(pv.b) :
        /\ fIn' = [pixel_values |-> pv, target_size |-> <<2, 3>>, crop_face_center |-> ccf,
                   faces |-> faces]
        /\ fOut' = Crop025Face(pv, <<2, 3>>, ccf, faces, slack)
    /\ fpc' = "crop025_face"

Get025GazeMouthCall ==
    /\ fpc = "idle"
    /\ \E pv \in FaceFrames, g \in BOOLEAN :
       \E faces \in DetectorAnswers(pv.b) :
        /\ fIn' = [pixel_values |-> pv, target_size |-> <<2, 3>>, is_get_head |-> g,
                   faces |-> faces]
        /\ fOut' = ConditionFrames(pv, <<2, 3>>, g, faces)
    /\ fpc' = "get_025_gaze_mouth"

GetConditionFaceCall ==
    /\ fpc = "idle"
    /\ \E pv \in FaceFrames, g \in BOOLEAN :
       \E faces \in DetectorAnswers(pv.b) :
        /\ fIn' = [pixel_values |-> pv, target_size |-> <<2, 3>>, is_get_head |-> g,
                   faces |-> faces]
        /\ fOut' = ConditionFrames(pv, <<2, 3>>, g, faces)
    /\ fpc' = "get_condition_face"

----------------------------------------------------------------------------
(* get_checkpoint                                                          *)

MaxCalls == 2           \* calls of get_checkpoint the calling thread makes

\* A path is the sequence of its components, path.split("/"):
\* "s3://b1/a.ckpt" is <<"s3:", "", "b1", "a.ckpt">>.
CheckpointPaths == {<<"s3:", "", "b1", "a.ckpt">>,
                    <<"s3:", "", "b2", "a.ckpt">>,
                    <<"s3:", "", "b1", "d.ckpt">>,
                    <<"models", "a.ckpt">>,
                    <<"a.ckpt">>}

\* The variant C15 is tested against: the first component as the file name.
BasePathFirst(path) == path[1]

\* base_path = path.split("/")[-1]
BasePath(path) == path[Len(path)]

\* path.find("s3://") != -1: a substring test on the whole path.  The
\* substring ends with two slashes, so it lies at the end of a component that
\* an empty component and one more follow: a component that ends with s3:
\* ("xs3:" as well as "s3:").
IsRemote(path) ==
    \E i \in 1..(Len(path) - 2) : StrEndsWith(path[i], "s3:") /\ path[i + 1] = ""

\* The file f"./{base_path}" of the working directory, as a path.
LocalName(base_path) == <<base_path>>

\* The local checkpoints before the first call, and the remote objects.
LocalFilesInit ==
    [p \in {q \in CheckpointPaths : ~IsRemote(q)} |-> [origin |-> "local", path |-> p]]
RemoteObject(path) == [origin |-> "remote", path |-> path]

\* torch.load(name): the content of the file, or FileNotFoundError.
TorchLoad(files, name) ==
    IF name \in DOMAIN files
    THEN [exc |-> None, content |-> files[name]]
    ELSE [exc |-> "FileNotFoundError"]

\* The result of a call that has not loaded yet.
Pending == [exc |-> "pending"]

\* aws s3 cp path ./ : the object is written to ./base_path.
AwsCp(files, path) ==
    [n \in DOMAIN files \cup {LocalName(BasePath(path))} |->
        IF n = LocalName(BasePath(path)) THEN RemoteObject(path) ELSE files[n]]

\* rm -rf name: the file is gone; no error when there is none.
RmRf(files, name) == [n \in DOMAIN files \ {name} |-> files[n]]

Event(call, ev, file) == [call |-> call, ev |-> ev, file |-> file]

CkptIdle ==
    /\ gpc = "idle" /\ gCalls = <<>> /\ gThreads = <<>>
    /\ gFiles = LocalFilesInit /\ gLog = <<>>

\* get_checkpoint(path) with a local path: line 669, the whole call.
GetCheckpointLocal ==
    /\ gpc = "idle"
    /\ Len(gCalls) < MaxCalls
    /\ \E path \in CheckpointPaths :
        /\ ~IsRemote(path)
        /\ LET ans == TorchLoad(gFiles, path) IN
            /\ gCalls' = Append(gCalls, [path |-> path, ans |-> ans])
            /\ gLog' = Append(gLog, Event(Len(gCalls) + 1, "load", path))
            /\ gpc' = IF ans.exc # None THEN "raised" ELSE "idle"
    /\ UNCHANGED <<gThreads, gFiles>>

\* get_checkpoint(path) with a remote path, up to the return of the copy
\* command: lines 667-676.
GetCheckpointDownload ==
    /\ gpc = "idle"
    /\ Len(gCalls) < MaxCalls
    /\ \E path \in CheckpointPaths :
        /\ IsRemote(path)
        /\ gCalls' = Append(gCalls, [path |-> path, ans |-> Pending])
        /\ gFiles' = AwsCp(gFiles, path)
        /\ gLog' = Append(gLog, Event(Len(gCalls) + 1, "download", LocalName(BasePath(path))))
    /\ gpc' = "downloaded"
    /\ UNCHANGED gThreads

\* ans = torch.load(f"./{base_path}"): line 677.
GetCheckpointLoad ==
    /\ gpc = "downloaded"
    /\ LET k == Len(gCalls)
           name == LocalName(BasePath(gCalls[k].path))
           ans == TorchLoad(gFiles, name)
       IN  /\ gCalls' = [gCalls EXCEPT ![k].ans = ans]
           /\ gLog' = Append(gLog, Event(k, "load", name))
           /\ gpc' = IF ans.exc # None THEN "raised" ELSE "loaded"
    /\ UNCHANGED <<gThreads, gFiles>>

\* thread.start() and return ans: lines 678-682.  The thread is not joined.
GetCheckpointStartCleanup ==
    /\ gpc = "loaded"
    /\ LET k == Len(gCalls)
           name == LocalName(BasePath(gCalls[k].path))
       IN  /\ gThreads' = Append(gThreads, [call |-> k, file |-> name, state |-> "started"])
           /\ gLog' = Append(gLog, Event(k, "start", name))
    /\ gpc' = "idle"
    /\ UNCHANGED <<gCalls, gFiles>>

\* remove(), in its thread: line 679.
CleanupRemove ==
    /\ \E j \in 1..Len(gThreads) :
        /\ gThreads[j].state = "started"
        /\ gFiles' = RmRf(gFiles, gThreads[j].file)
        /\ gThreads' = [gThreads EXCEPT ![j].state = "done"]
        /\ gLog' = Append(gLog, Event(gThreads[j].call, "remove", gThreads[j].file))
    /\ UNCHANGED <<gpc, gCalls>>

InitCkpt == CkptIdle /\ DdimIdle /\ LwIdle /\ CropIdle /\ FaceIdle /\ NextStepIdle
NextCkpt ==
    \/ GetCheckpointLocal /\ UNCHANGED <<ddimVars, loadVars, cropVars, faceVars, nextVars>>
    \/ GetCheckpointDownload /\ UNCHANGED <<ddimVars, loadVars, cropVars, faceVars, nextVars>>
    \/ GetCheckpointLoad /\ UNCHANGED <<ddimVars, loadVars, cropVars, faceVars, nextVars>>
    \/ GetCheckpointStartCleanup /\ UNCHANGED <<ddimVars, loadVars, cropVars, faceVars, nextVars>>
    \/ CleanupRemove /\ UNCHANGED <<ddimVars, loadVars, cropVars, faceVars, nextVars>>
SpecCkpt == InitCkpt /\ [][NextCkpt]_vars

InitDDIM == DdimIdle /\ LwIdle /\ CropIdle /\ FaceIdle /\ NextStepIdle /\ CkptIdle
NextDDIM ==
    \/ DdimCall /\ UNCHANGED <<loadVars, cropVars, faceVars, nextVars, ckptVars>>
    \/ DdimStep /\ UNCHANGED <<loadVars, cropVars, faceVars, nextVars, ckptVars>>
    \/ DdimReturn /\ UNCHANGED <<loadVars, cropVars, faceVars, nextVars, ckptVars>>
SpecDDIM == InitDDIM /\ [][NextDDIM]_vars

InitNextStep == NextStepIdle /\ DdimIdle /\ LwIdle /\ CropIdle /\ FaceIdle /\ CkptIdle
NextNextStep ==
    \/ NextStepCall /\ UNCHANGED <<ddimVars, loadVars, cropVars, faceVars, ckptVars>>
SpecNextStep == InitNextStep /\ [][NextNextStep]_vars

InitLoad == LwIdle /\ DdimIdle /\ CropIdle /\ FaceIdle /\ NextStepIdle /\ CkptIdle
NextLoad ==
    \/ LwCall /\ UNCHANGED <<ddimVars, cropVars, faceVars, nextVars, ckptVars>>
    \/ LwMotionModule /\ UNCHANGED <<ddimVars, cropVars, faceVars, nextVars, ckptVars>>
    \/ LwDreambooth /\ UNCHANGED <<ddimVars, cropVars, faceVars, nextVars, ckptVars>>
    \/ LwLora /\ UNCHANGED <<ddimVars, cropVars, faceVars, nextVars, ckptVars>>
    \/ LwMotionLora /\ UNCHANGED <<ddimVars, cropVars, faceVars, nextVars, ckptVars>>
    \/ LwReturn /\ UNCHANGED <<ddimVars, cropVars, faceVars, nextVars, ckptVars>>
SpecLoad == InitLoad /\ [][NextLoad]_vars

InitCrop == CropIdle /\ DdimIdle /\ LwIdle /\ FaceIdle /\ NextStepIdle /\ CkptIdle
NextCrop ==
    \/ CropAndResizeCall /\ UNCHANGED <<ddimVars, loadVars, faceVars, nextVars, ckptVars>>
    \/ CropMoveFaceCall /\ UNCHANGED <<ddimVars, loadVars, faceVars, nextVars, ckptVars>>
SpecCrop == InitCrop /\ [][NextCrop]_vars

InitFace == FaceIdle /\ DdimIdle /\ LwIdle /\ CropIdle /\ NextStepIdle /\ CkptIdle
NextFace ==
    \/ CropAndResizeTensorFaceCall /\ UNCHANGED <<ddimVars, loadVars, cropVars, nextVars, ckptVars>>
    \/ Crop025FaceCall /\ UNCHANGED <<ddimVars, loadVars, cropVars, nextVars, ckptVars>>
    \/ Get025GazeMouthCall /\ UNCHANGED <<ddimVars, loadVars, cropVars, nextVars, ckptVars>>
    \/ GetConditionFaceCall /\ UNCHANGED <<ddimVars, loadVars, cropVars, nextVars, ckptVars>>
SpecFace == InitFace /\ [][NextFace]_vars

\* C1 as stated: for every num_inv_steps = N >= 0 the call returns a list of
\* exactly N+1 latents whose first element is the input latent.
C1_Original ==
    dpc \in {"done", "raised"} =>
        /\ dpc = "done"
        /\ Len(dRet) = dIn.num_inv_steps + 1
        /\ dRet[1] = dIn.latent

\* C1 as amended: for every N with 0 <= N <= 2 * len(timesteps) the call
\* returns a list of exactly N+1 latents whose first element is the input
\* latent, unchanged by the loop, which only appends (all_latent holds i+1
\* latents before iteration i); for N > 2 * len(timesteps) the read
\* timesteps[len - i - 1] raises IndexError at i = 2 * len and nothing is
\* returned.
C1_Amended ==
    /\ dpc = "loop" => /\ Len(dAll) = dI + 1
                       /\ dI <= dIn.num_inv_steps
                       /\ dAll[1] = dIn.latent
    /\ dpc = "done" => /\ dIn.num_inv_steps <= 2 * Len(dIn.timesteps)
                       /\ Len(dRet) = dIn.num_inv_steps + 1
                       /\ dRet[1] = dIn.latent
    /\ dpc = "raised" => /\ dIn.num_inv_steps > 2 * Len(dIn.timesteps)
                         /\ dI = 2 * Len(dIn.timesteps)
                         /\ dRet = "IndexError"

\* A call with more inversion steps than the scheduler has timesteps (the
\* index wraps) has returned.
C1_Witness ==
    /\ dpc = "done"
    /\ dIn.num_inv_steps = 2 * Len(dIn.timesteps)
    /\ Len(dRet) = dIn.num_inv_steps + 1
    /\ dRet[1] = dIn.latent

\* The position (0-based, from the front) of the timestep a call was made
\* with: a negative index counts from the end.
PositionRead(call) == IF call.pos < 0 THEN Len(dIn.timesteps) + call.pos ELSE call.pos

\* Every iteration made so far has called the denoising network once, with
\* the conditional embedding and the current latent, and appended one latent,
\* the next_step of that call.
OneCallOneLatent ==
    /\ Len(dCalls) = dI
    /\ Len(dAll) = dI + 1
    /\ \A j \in 1..Len(dCalls) :
        /\ dCalls[j].ctx = "cond"
        /\ dAll[j + 1].op = "next_step"
        /\ dAll[j + 1].x = dAll[j]
        /\ dAll[j + 1].eps = GetNoisePredSingle(dAll[j], dCalls[j].t, dIn.context[2])

\* C11 as stated: for every num_inv_steps, step i uses the timestep at
\* position len(timesteps)-1-i, each position is used at most once, and each
\* step makes exactly one denoising-network call, with the conditional
\* embedding only, before appending exactly one latent.
C11_Original ==
    dpc \in {"loop", "done", "raised"} =>
        /\ dpc # "raised"
        /\ OneCallOneLatent
        /\ \A j \in 1..Len(dCalls) :
            /\ PositionRead(dCalls[j]) = Len(dIn.timesteps) - 1 - (j - 1)
            /\ dCalls[j].t = dIn.timesteps[PositionRead(dCalls[j]) + 1]
        /\ \A j, k \in 1..Len(dCalls) :
            j # k => PositionRead(dCalls[j]) # PositionRead(dCalls[k])

\* C11 as amended: step i reads timesteps[len - 1 - i].  For i < len that is
\* position len-1-i, the sequence in reverse order, each position once; for
\* len <= i < 2 * len the index is negative and counts from the end, so the
\* step reads position 2*len-1-i, the position step i - len used: the
\* sequence is walked in reverse a second time; at i = 2 * len the read
\* raises IndexError with no call made.  Each step that runs makes exactly one
\* denoising-network call, with the conditional embedding only and the
\* current latent, and appends exactly one latent.
C11_Amended ==
    dpc \in {"loop", "done", "raised"} =>
        LET len == Len(dIn.timesteps) IN
        /\ OneCallOneLatent
        /\ dI <= 2 * len
        /\ dpc = "raised" => (dI = 2 * len /\ dI < dIn.num_inv_steps)
        /\ dpc = "done" => dI = dIn.num_inv_steps
        /\ \A j \in 1..Len(dCalls) :
            LET i == j - 1 IN
            /\ dCalls[j].pos = len - 1 - i
            /\ PositionRead(dCalls[j]) = IF i < len THEN len - 1 - i ELSE 2 * len - 1 - i
            /\ dCalls[j].t = dIn.timesteps[PositionRead(dCalls[j]) + 1]
        /\ \A j, k \in 1..Len(dCalls) :
            (j < k /\ PositionRead(dCalls[j]) = PositionRead(dCalls[k])) => k = j + len

\* A call with one step more than the two timesteps has returned: steps 0 and
\* 2 both ran with the last timestep.
C11_Witness ==
    /\ dpc = "done"
    /\ Len(dIn.timesteps) = 2 /\ dIn.num_inv_steps = 3
    /\ Len(dCalls) = 3
    /\ dCalls[1].t = 0 /\ dCalls[2].t = 500 /\ dCalls[3].t = 0

\* The timestep the claims call t': min(t - num_train_timesteps //
\* num_inference_steps, 999).
ShiftedTimestep == Min(nIn.timestep - NumTrainTimesteps \div nIn.num_inference_steps, 999)

\* The positions 0 .. num_train_timesteps - 1 of alphas_cumprod.
ValidRange == 0..(NumTrainTimesteps - 1)

\* C12 as stated: next_step computes t' = min(t - num_train_timesteps /
\* num_inference_steps, 999), reads alphas_cumprod at t, with
\* final_alpha_cumprod in its place exactly when t < 0, and reads
\* alphas_cumprod at t'; no index outside the valid range is read.  It is
\* stated here for the timesteps 0 <= t <= 999 only, those a scheduler yields.
C12_Original ==
    (npc = "next_step" /\ nIn.timestep \in ValidRange) =>
        /\ nOut.exc = None
        /\ nOut.t_prev = ShiftedTimestep
        /\ \E k \in 1..Len(nOut.reads) :
            IF nIn.timestep < 0
            THEN nOut.reads[k].entry = "final_alpha_cumprod"
            ELSE nOut.reads[k].entry = "alphas_cumprod" /\ nOut.reads[k].index = nIn.timestep
        /\ (\E k \in 1..Len(nOut.reads) : nOut.reads[k].entry = "final_alpha_cumprod")
               <=> nIn.timestep < 0
        /\ \E k \in 1..Len(nOut.reads) :
            nOut.reads[k].entry = "alphas_cumprod" /\ nOut.reads[k].index = ShiftedTimestep
        /\ \A k \in 1..Len(nOut.reads) :
            nOut.reads[k].entry = "alphas_cumprod" => nOut.reads[k].index \in ValidRange

\* C12 as amended: with t' = min(t - num_train_timesteps //
\* num_inference_steps, 999), next_step first reads alphas_cumprod at t', with
\* final_alpha_cumprod in its place exactly when t' < 0 (alpha_prod_t), and
\* then reads alphas_cumprod at the timestep t it was given
\* (alpha_prod_t_next); the value returned is built of the noise prediction,
\* the sample and these two entries.  For 0 <= t <= 999 the call returns and
\* no index outside 0..999 is read.  The read at t is not guarded: for
\* t >= num_train_timesteps or t < -num_train_timesteps it raises IndexError
\* (line 126), and for a negative t in range it counts from the end.
C12_Amended ==
    npc = "next_step" =>
        LET t == nIn.timestep IN
        /\ nOut.t_prev = ShiftedTimestep
        /\ nOut.reads[1].entry = "final_alpha_cumprod" <=> ShiftedTimestep < 0
        /\ nOut.reads[1].entry = "alphas_cumprod" =>
               /\ nOut.reads[1].index = ShiftedTimestep
               /\ nOut.reads[1].position = ShiftedTimestep
               /\ ShiftedTimestep \in ValidRange
        /\ nOut.exc # None <=> (t >= NumTrainTimesteps \/ t < 0 - NumTrainTimesteps)
        /\ nOut.exc # None => nOut.exc = "IndexError" /\ nOut.line = 126 /\ Len(nOut.reads) = 1
        /\ nOut.exc = None =>
               /\ Len(nOut.reads) = 2
               /\ nOut.reads[2].entry = "alphas_cumprod" /\ nOut.reads[2].index = t
               /\ nOut.reads[2].position \in ValidRange
               /\ nOut.reads[2].position = IF t < 0 THEN NumTrainTimesteps + t ELSE t
               /\ nOut.value.op = "next_step"
               /\ nOut.value.eps = nIn.model_output /\ nOut.value.x = nIn.sample
               /\ nOut.value.a_t.alpha = nOut.reads[1].entry
               /\ nOut.value.a_t.at = nOut.reads[1].index
               /\ nOut.value.a_next.alpha = "alphas_cumprod" /\ nOut.value.a_next.at = t
        /\ t \in ValidRange =>
               /\ nOut.exc = None
               /\ \A k \in 1..2 : nOut.reads[k].entry = "alphas_cumprod"
                                     => nOut.reads[k].index \in ValidRange

\* next_step has run on the timestep 0 of a scheduler with two inference
\* steps: t' = -500, so final_alpha_cumprod stands for alpha_prod_t, and
\* alphas_cumprod is read at 0.
C12_Witness ==
    /\ npc = "next_step"
    /\ nIn.timestep = 0 /\ nIn.num_inference_steps = 2
    /\ nOut.exc = None /\ nOut.t_prev = 0 - 500
    /\ nOut.reads[1].entry = "final_alpha_cumprod"
    /\ nOut.reads[2].index = 0

----------------------------------------------------------------------------
(* Claims about load_weights                                               *)

\* load_weights has raised at the given line of util.py.
RaisedAt(line) == lwpc = "raised" /\ lwRet.line = line

\* The motion-module step of the call is over.
MotionStepOver == lwpc \notin {"idle", "motion"}

\* The dict read from motion_module_path, unwrapped ({} for an empty path).
MotionCheckpoint ==
    IF lwIn.motion_module_path = EmptyPath THEN <<>>
    ELSE Unwrap(lwIn.motion_module_file)

\* C2 as stated: load_weights aborts with an assertion failure whenever the
\* motion-module checkpoint, unwrapped, holds a key the unet does not have.
C2_Original ==
    (MotionStepOver /\ \E k \in DOMAIN MotionCheckpoint : k \notin DOMAIN pipe.unet)
        => RaisedAt(180)

\* C2 as amended: load_weights aborts with an assertion failure (line 180)
\* exactly when the motion-module checkpoint, unwrapped, holds a key that
\* contains "motion_modules." and that the unet does not have; keys without
\* that substring are filtered out before the load and never raise.
C2_Amended ==
    MotionStepOver =>
        (RaisedAt(180) <=>
            \E k \in DOMAIN MotionCheckpoint :
                IsMotionKey(k) /\ k \notin DOMAIN pipe.unet)

\* A wrapped checkpoint with an unexpected motion-module key has raised.
C2_Witness ==
    /\ RaisedAt(180)
    /\ StateDictKey \in DOMAIN lwIn.motion_module_file
    /\ <<"up", "motion_modules", "weight">> \in DOMAIN MotionCheckpoint

\* The call's inputs other than the motion module are all empty.
OthersEmpty ==
    /\ lwIn.dreambooth_model_path = EmptyPath
    /\ lwIn.lora_model_path = EmptyPath
    /\ lwIn.motion_module_lora_configs = <<>>

\* The call leaves the pipeline as it was and returns it.
PipelineUntouched ==
    /\ lwpc # "raised"
    /\ pipe = PipeInit
    /\ lwpc = "done" => lwRet = [pipeline |-> "animation_pipeline", state |-> PipeInit]

\* A step whose path or list is empty: it changes no parameter and does not raise.
SkippedStep ==
    \/ lwpc = "motion" /\ lwIn.motion_module_path = EmptyPath
    \/ lwpc = "dreambooth" /\ lwIn.dreambooth_model_path = EmptyPath
    \/ lwpc = "lora" /\ lwIn.lora_model_path = EmptyPath
    \/ lwpc = "motion_lora" /\ lwIn.motion_module_lora_configs = <<>>

\* C3: each merge step of load_weights is skipped when its path is the empty
\* string or its config list is empty; a call with all four inputs empty, or
\* with only a motion-module checkpoint that is an empty dict, leaves every
\* parameter of the unet, the vae and the text encoder unchanged and returns
\* the same pipeline.
C3_Skip ==
    /\ [](lwpc # "idle" /\ OthersEmpty /\ DOMAIN MotionCheckpoint = {}
            => PipelineUntouched)
    /\ [][SkippedStep => pipe' = pipe /\ lwpc' # "raised"]_vars

\* A call whose motion-module file is an empty dict has returned.
C3_Witness ==
    /\ lwpc = "done"
    /\ OthersEmpty
    /\ lwIn.motion_module_path # EmptyPath
    /\ DOMAIN MotionCheckpoint = {}
    /\ lwRet.state = PipeInit

\* C9 as stated: the only fatal outcomes of load_weights are the assertion on
\* unexpected motion-module keys (line 180) and the assertion on the LoRA
\* path's suffix (line 205); a mismatch in the dreambooth, LoRA and
\* motion-LoRA steps never aborts the merge.
C9_Claim ==
    lwpc = "raised" => lwRet.line \in {180, 205}

\* The LoRA path of the call is not empty and lacks the suffix .safetensors.
BadLoraSuffix ==
    /\ lwIn.lora_model_path # EmptyPath
    /\ ~EndsWith(lwIn.lora_model_path, ".safetensors")

\* The motion-module merge of the call is in the unet.
MotionMergeApplied ==
    pipe.unet = LoadStateDict(PipeInit.unet, UnetStateDict(lwIn))

\* The steps of load_weights, in the order of the source.
LoadSteps == <<"motion", "dreambooth", "lora", "motion_lora", "done">>
StepPos(pc) == CHOOSE n \in 1..Len(LoadSteps) : LoadSteps[n] = pc

\* A step of the call that moves it on: to the next step of LoadSteps, or out
\* of the call by an exception.
InStepOrder ==
    \/ lwpc = "idle" /\ lwpc' = "motion"
    \/ lwpc \in {"motion", "dreambooth", "lora"} /\ lwpc' = "raised"
    \/ /\ lwpc \in {"motion", "dreambooth", "lora", "motion_lora"}
       /\ lwpc' \in {"dreambooth", "lora", "motion_lora", "done"}
       /\ StepPos(lwpc') = StepPos(lwpc) + 1

\* An iteration of the motion-LoRA loop merges the next config of the list.
NextMotionLoraMerged ==
    /\ lwpc = "motion_lora" /\ lwpc' = "motion_lora"
    /\ lwJ' = lwJ + 1
    /\ lwJ' <= Len(lwIn.motion_module_lora_configs)
    /\ LET cfg == lwIn.motion_module_lora_configs[lwJ'] IN
        pipe' = ConvertMotionLora(pipe, Unwrap(cfg.file), cfg.alpha)

\* What the steps before the LoRA step have left in the model when the call
\* aborts at line 205: the motion-module merge in the unet, and the dreambooth
\* merge of the call, which is none (a call with a dreambooth checkpoint is
\* over at line 194 and does not get to line 205).  Nothing of the later steps
\* is in the model.
EarlierMergesApplied ==
    /\ MotionMergeApplied
    /\ lwIn.dreambooth_model_path = EmptyPath
    /\ pipe.vae = PipeInit.vae /\ pipe.text_encoder = PipeInit.text_encoder
    /\ lwJ = 0

\* C16: load_weights applies its steps in the fixed order motion module,
\* dreambooth, LoRA, motion-LoRA list (in list order), and is not atomic: when
\* a call aborts on the LoRA-suffix assertion (line 205), the merges of its
\* earlier steps are in the model, and the abort itself changes no parameter:
\* nothing is rolled back.
C16_NotAtomic ==
    /\ [](RaisedAt(205) => BadLoraSuffix /\ EarlierMergesApplied)
    /\ [][lwpc' # lwpc => InStepOrder]_vars
    /\ [][lwJ' # lwJ => NextMotionLoraMerged]_vars
    /\ [][(lwpc = "lora" /\ lwpc' = "raised") =>
             (lwRet'.line = 205 /\ pipe' = pipe)]_vars

\* A call has aborted at line 205 with a parameter of its motion-module
\* checkpoint in the unet.
C16_Witness ==
    /\ RaisedAt(205)
    /\ <<"down", "motion_modules", "weight">> \in DOMAIN MotionCheckpoint
    /\ pipe.unet[<<"down", "motion_modules", "weight">>] = Tensor("motion_module")
    /\ pipe # PipeInit

----------------------------------------------------------------------------
(* Claims about the crop geometry                                          *)

RectW(r) == r[3] - r[1]
RectH(r) == r[4] - r[2]

\* left >= 0, top >= 0, right <= width, bottom <= height
ClippedTo(r, width, height) ==
    r[1] >= 0 /\ r[2] >= 0 /\ r[3] <= width /\ r[4] <= height

\* The rectangle lies in [0, width] x [0, height].
WithinFrame(r, width, height) ==
    /\ 0 <= r[1] /\ r[1] <= width /\ 0 <= r[3] /\ r[3] <= width
    /\ 0 <= r[2] /\ r[2] <= height /\ 0 <= r[4] /\ r[4] <= height

\* 0 <= left < right <= width and 0 <= top < bottom <= height
NonDegenerate(r, width, height) ==
    /\ 0 <= r[1] /\ r[1] < r[3] /\ r[3] <= width
    /\ 0 <= r[2] /\ r[2] < r[4] /\ r[4] <= height

\* The rectangle and the frame share a pixel.
MeetsFrame(r, width, height) ==
    r[1] < width /\ r[3] > 0 /\ r[2] < height /\ r[4] > 0

CropRectCall == cpc = "crop_and_resize_tensor" /\ cIn.crop_rect # NoneArg

\* C4 as stated: for every frame size and every crop_rect, the rectangle
\* crop_and_resize_tensor slices with has equal width and height and lies
\* within [0, width] x [0, height].  It is stated here for the rectangles
\* that lie in the frame with left < right and top < bottom only, the case
\* most favourable to the claim.
C4_Original ==
    (CropRectCall /\ NonDegenerate(cIn.crop_rect, cIn.frame.w, cIn.frame.h)) =>
        /\ RectW(cOut.rect) = RectH(cOut.rect)
        /\ WithinFrame(cOut.rect, cIn.frame.w, cIn.frame.h)

\* C4 as amended: for every frame size and every crop_rect with left < right
\* and top < bottom, the padded rectangle contains crop_rect, keeps its longer
\* side, and its width and height are equal when face_w - face_h is even and
\* differ by one when it is odd; the rectangle used for slicing is the padded
\* one clipped by left >= 0, top >= 0, right <= width, bottom <= height; so it
\* is square when the difference is even and the padded rectangle lies in the
\* frame, and it lies within [0, width] x [0, height] when crop_rect meets the
\* frame.
C4_Amended ==
    CropRectCall =>
        LET in == cIn.crop_rect
            p == cOut.padded
            r == cOut.rect
            w == cIn.frame.w
            h == cIn.frame.h
            odd == (RectW(in) - RectH(in)) % 2
            d == RectW(p) - RectH(p)
        IN  /\ p[1] <= in[1] /\ p[2] <= in[2] /\ p[3] >= in[3] /\ p[4] >= in[4]
            /\ Max(RectW(p), RectH(p)) = Max(RectW(in), RectH(in))
            /\ IF d >= 0 THEN d = odd ELSE 0 - d = odd
            /\ r = <<Max(p[1], 0), Max(p[2], 0), Min(p[3], w), Min(p[4], h)>>
            /\ ClippedTo(r, w, h)
            /\ (odd = 0 /\ ClippedTo(p, w, h)) => r = p /\ RectW(r) = RectH(r)
            /\ MeetsFrame(in, w, h) => NonDegenerate(r, w, h)

\* The spec's example: crop_rect (100, 100, 200, 150) on a 640 x 480 frame is
\* widened to the square (100, 75, 200, 175).
C4_Witness ==
    /\ CropRectCall
    /\ cIn.frame = VgaFrame
    /\ cIn.crop_rect = <<100, 100, 200, 150>>
    /\ cOut.rect = <<100, 75, 200, 175>>

\* C5 as stated: for a face rectangle with left < right and top < bottom that
\* may extend beyond the frame, a center point inside the frame, or neither,
\* the bounds used by crop_and_resize_tensor and by crop_move_face satisfy
\* 0 <= left < right <= width and 0 <= top < bottom <= height.  It is stated
\* here for frames of two pixels or more a side and for rectangles that share
\* a pixel with the frame, the cases most favourable to the claim.
C5_Claim ==
    (cpc # "idle" /\ cIn.frame.w >= NoRectEdge /\ cIn.frame.h >= NoRectEdge) =>
    /\ (/\ cpc = "crop_and_resize_tensor"
        /\ \/ cIn.crop_rect # NoneArg /\ MeetsFrame(cIn.crop_rect, cIn.frame.w, cIn.frame.h)
           \/ /\ cIn.crop_rect = NoneArg /\ cIn.center # NoneArg
              /\ 0 <= cIn.center[1] /\ cIn.center[1] < cIn.frame.w
              /\ 0 <= cIn.center[2] /\ cIn.center[2] < cIn.frame.h
           \/ cIn.crop_rect = NoneArg /\ cIn.center = NoneArg)
       => NonDegenerate(cOut.rect, cIn.frame.w, cIn.frame.h)
    /\ (/\ cpc = "crop_move_face"
        /\ \/ cIn.crop_rect = NoneArg
           \/ MeetsFrame(cIn.crop_rect, cIn.frame.w, cIn.frame.h))
       => NonDegenerate(cOut.bounds, Tenths * cIn.frame.w, Tenths * cIn.frame.h)

DefaultCropCall ==
    cpc = "crop_and_resize_tensor" /\ cIn.crop_rect = NoneArg /\ cIn.center = NoneArg

\* C6: with crop_rect=None and center=None, crop_and_resize_tensor crops the
\* central square of side s = min(height, width): left = (width - s) // 2,
\* top = (height - s) // 2, right = left + s, bottom = top + s (columns 80..560
\* and rows 0..480 of a 480 x 640 frame), and the result has the shape
\* (batch, channels, target_height, target_width), the target size being
\* (112, 112) when is_arcface is set.
C6_DefaultCrop ==
    DefaultCropCall =>
        LET w == cIn.frame.w
            h == cIn.frame.h
            s == IF h < w THEN h ELSE w
            r == cOut.rect
        IN  /\ r[1] = (w - s) \div 2 /\ r[3] = r[1] + s
            /\ r[2] = (h - s) \div 2 /\ r[4] = r[2] + s
            /\ (w - r[3]) - r[1] \in {0, 1}
            /\ (h - r[4]) - r[2] \in {0, 1}
            /\ cIn.frame = VgaFrame => r = <<80, 0, 560, 480>>
            /\ cOut.ret.exc = None
            /\ cOut.ret.pixels.rows = <<r[2], r[4]>>
            /\ cOut.ret.pixels.cols = <<r[1], r[3]>>
            /\ cOut.ret.shape =
                  IF cIn.is_arcface
                  THEN <<cIn.frame.b, cIn.frame.c, ArcfaceSize, ArcfaceSize>>
                  ELSE <<cIn.frame.b, cIn.frame.c, cIn.target_size[1], cIn.target_size[2]>>

\* The spec's example: a (1, 3, 480, 640) frame cropped to its central 480 x 480.
C6_Witness ==
    /\ DefaultCropCall
    /\ cIn.frame = VgaFrame /\ cIn.target_size = <<512, 512>> /\ ~cIn.is_arcface
    /\ cOut.rect = <<80, 0, 560, 480>>
    /\ cOut.ret.shape = <<1, 3, 512, 512>>

\* C7 as stated: with mask_rate = 1.0 and use_mask_rate = 1.0, for every
\* outcome of the draws, every frame and every target size, every pixel of the
\* frame crop_move_face returns is zero: the mask covers the whole target frame
\* (a pixel the mask leaves out is zero only if it sees no kept pixel).  It is
\* stated here for the target frames of 16 rows or more only, those whose
\* patches have a pixel at least.
C7_Claim ==
    (/\ cpc = "crop_move_face"
     /\ cIn.mask_rate = RateScale /\ cIn.use_mask_rate = RateScale
     /\ cIn.target_size[1] >= NumPatchesPerDim)
        => \A y \in 0..(cOut.ret.shape[3] - 1), x \in 0..(cOut.ret.shape[4] - 1) :
               Masked(cOut.ret, y, x) \/ ~SeesKeptPixel(cOut.ret, y, x)

----------------------------------------------------------------------------
(* Claims about the face cropping paths                                    *)

\* The pixels are the central square of the h x w frame src, resized to size:
\* the crop itself, or the whole of a square frame with nothing blacked out.
IsCenterSquareCrop(px, src, h, w, size) ==
    LET s == IF h < w THEN h ELSE w
        left == (w - s) \div 2
        top == (h - s) \div 2
    IN  /\ px.op = "resize" /\ px.size = size
        /\ \/ /\ px.of = src
              /\ px.rows = <<top, top + s>> /\ px.cols = <<left, left + s>>
           \/ /\ px.of.op = "keep" /\ px.of.of = src
              /\ px.of.rows = <<0, h>> /\ px.of.cols = <<0, w>>
              /\ h = w

\* C8 as stated: in every cropping path, when the face detector reports no
\* face (no 'image_ids' key or zero detections), the frames produced are the
\* default center-square crop of the input and no error is raised.
C8_Claim ==
    (fpc # "idle" /\ NoFaceFound(fIn.faces)) =>
        /\ fOut.exc = None
        /\ LET pv == fIn.pixel_values IN
           IF fpc \in {"crop_and_resize_tensor_face", "crop025_face"}
           THEN IsCenterSquareCrop(fOut.pixels, pv.src, pv.h, pv.w, fIn.target_size)
           ELSE \A i \in 1..pv.b :
                    IsCenterSquareCrop(fOut.pixels[i], FrameOf(pv, i - 1).src,
                                       pv.h, pv.w, fIn.target_size)

\* The call of crop_and_resize_tensor_face in which the detector found a face
\* in the first and in the last frame and found one again on the cropped last
\* frame.
BothFoundAndRechecked ==
    /\ fIn.crop_face_center
    /\ ~NoFaceFound(fIn.faces)
    /\ FirstRectOf(fIn.faces, 0) # NoneArg
    /\ FirstRectOf(fIn.faces, 1) # NoneArg
    /\ ~NoFaceFound(fIn.refaces)

\* The crop centred on the first-frame face was made and was empty.
CentredCropEmpty == fOut.exc = "RuntimeError" /\ fOut.line = 459

\* C13 as stated: on a multi-frame batch crop_and_resize_tensor_face returns
\* the crop centred on the first-frame face only when the detector found a
\* face in the first and the last frame and again on the cropped last frame;
\* in every other case it returns, without error, the plain center-square
\* crop of the original frames.  The calls whose centred crop is empty (the
\* face center lies on the frame's edge) are left aside here.
C13_Claim ==
    (/\ fpc = "crop_and_resize_tensor_face"
     /\ fIn.pixel_values.b > 1
     /\ ~BothFoundAndRechecked
     /\ ~CentredCropEmpty)
        => /\ fOut.exc = None
           /\ IsCenterSquareCrop(fOut.pixels, fIn.pixel_values.src, fIn.pixel_values.h,
                                 fIn.pixel_values.w, fIn.target_size)

\* The rectangle box contains the rectangle r.
BoxContains(box, r) ==
    box[1] <= r[1] /\ box[2] <= r[2] /\ box[3] >= r[3] /\ box[4] >= r[4]

\* C14 as stated: for every detector result with at least one detection,
\* including those where only some frames have a detected face, crop025_face
\* completes without error and the union box it computes contains the first
\* detected rectangle of every frame that has one.  The calls that fail later,
\* on an empty crop around the box (line 527), are left aside here.
C14_Claim ==
    (/\ fpc = "crop025_face"
     /\ fIn.crop_face_center
     /\ ~NoFaceFound(fIn.faces)
     /\ fOut.exc # "RuntimeError")
        => /\ fOut.exc = None
           /\ \A i \in 0..(fIn.pixel_values.b - 1) :
                FirstRectOf(fIn.faces, i) # NoneArg
                    => BoxContains(fOut.box, FirstRectOf(fIn.faces, i))

----------------------------------------------------------------------------
(* Claims about get_checkpoint                                             *)

\* The step ev of call k has been taken, and its place in the log.
Happened(k, ev) == \E i \in 1..Len(gLog) : gLog[i].call = k /\ gLog[i].ev = ev
LogPos(k, ev) == CHOOSE i \in 1..Len(gLog) : gLog[i].call = k /\ gLog[i].ev = ev

\* The last component of the path of call k, as a file of the working directory.
DownloadedFile(k) == <<gCalls[k].path[Len(gCalls[k].path)]>>

\* Within a call for a remote path the order is download, load, start of the
\* deletion, deletion; every step is taken once, on the file ./base_path.
CallOrder(k) ==
    /\ \A i, j \in 1..Len(gLog) :
         (gLog[i].call = k /\ gLog[j].call = k /\ gLog[i].ev = gLog[j].ev) => i = j
    /\ \A i \in 1..Len(gLog) : gLog[i].call = k => gLog[i].file = DownloadedFile(k)
    /\ Happened(k, "download")
    /\ Happened(k, "load") => LogPos(k, "download") < LogPos(k, "load")
    /\ Happened(k, "start") =>
         /\ Happened(k, "load") /\ LogPos(k, "load") < LogPos(k, "start")
         /\ gCalls[k].ans.exc = None
    /\ Happened(k, "remove") =>
         Happened(k, "start") /\ LogPos(k, "start") < LogPos(k, "remove")

\* The load of call k found no file because the cleanup of an earlier call
\* for the same file name ran after the download of call k.
LostToCleanup(k) ==
    \E j \in 1..(k - 1) :
        /\ IsRemote(gCalls[j].path)
        /\ DownloadedFile(j) = DownloadedFile(k)
        /\ Happened(j, "remove")
        /\ LogPos(k, "download") < LogPos(j, "remove")
        /\ LogPos(j, "remove") < LogPos(k, "load")

\* What holds of the calls made so far.
CheckpointCalls ==
    \A k \in 1..Len(gCalls) :
        IF IsRemote(gCalls[k].path)
        THEN /\ CallOrder(k)
             /\ gCalls[k].ans.exc = "FileNotFoundError" <=>
                    (Happened(k, "load") /\ LostToCleanup(k))
             /\ gCalls[k].ans.exc = None =>
                    gCalls[k].ans.content = RemoteObject(gCalls[k].path)
        ELSE /\ \A i \in 1..Len(gLog) :
                  gLog[i].call = k => gLog[i].ev = "load" /\ gLog[i].file = gCalls[k].path
             /\ \A j \in 1..Len(gThreads) : gThreads[j].call # k

\* A step that is a whole call for a local path.
LocalCallStep ==
    /\ Len(gCalls') = Len(gCalls) + 1
    /\ ~IsRemote(gCalls'[Len(gCalls')].path)

\* C15: the cleanup thread is not joined (starting it deletes nothing, and the
\* call returns); within one call the order is download, load, start of the
\* deletion; a load for a remote path finds no file exactly when the cleanup
\* of an earlier call for the same base file name deleted the file after this
\* call's download and before its load; a local path is loaded directly, with
\* no copy, no thread and no deletion.
C15_Race ==
    /\ [](gpc \in {"idle", "downloaded", "loaded", "raised"} /\ CheckpointCalls)
    /\ [][(gpc = "loaded" /\ gpc' # "loaded") =>
             (/\ gpc' = "idle" /\ gFiles' = gFiles
              /\ gThreads'[Len(gThreads')].state = "started")]_vars
    /\ [][LocalCallStep =>
             (/\ gFiles' = gFiles /\ gThreads' = gThreads
              /\ gCalls'[Len(gCalls')].ans = TorchLoad(gFiles, gCalls'[Len(gCalls')].path))]_vars

\* The interleaving of the claim: the first call's cleanup deletes ./a.ckpt
\* after the second call's download and before its load, which finds no file.
C15_Witness ==
    /\ Len(gCalls) = 2
    /\ gCalls[1].path = <<"s3:", "", "b1", "a.ckpt">>
    /\ gCalls[2].path = <<"s3:", "", "b2", "a.ckpt">>
    /\ gCalls[1].ans.exc = None
    /\ gCalls[2].ans.exc = "FileNotFoundError"
    /\ gpc = "raised"
    /\ Len(gLog) = 6
    /\ gLog[3] = Event(1, "start", <<"a.ckpt">>)
    /\ gLog[4] = Event(2, "download", <<"a.ckpt">>)
    /\ gLog[5] = Event(1, "remove", <<"a.ckpt">>)
    /\ gLog[6] = Event(2, "load", <<"a.ckpt">>)

====
